---- MODULE Spec2Model ----
(***************************************************************************)
(* cast2gif command line front end (src/src/cli.rs).                       *)
(*                                                                         *)
(* One run of the process: run() wraps execute_cli() in catch_unwind;      *)
(* execute_cli() resolves the arguments, opens the files, resolves the     *)
(* output format, creates two progress bars and, for Gif, spawns the       *)
(* conversion worker and joins the MultiProgress.  The worker drives       *)
(* ProgressHandler::update_progress.                                       *)
(*                                                                         *)
(* Strings are sequences of one-character strings so that parsing,         *)
(* extension extraction and lower-casing are computed, not assumed.        *)
(***************************************************************************)
EXTENDS Integers, Sequences, FiniteSets, TLC

VARIABLES
    args,        \* clap matches: [frame_interval, format, force, out_file]
    fs,          \* file system at start: [cast_openable, out_openable, out_exists]
    outFile,     \* content of the output path: "absent" | "original" | "empty" | "gif"
    interval,    \* parsed f32 (ParseF32 result) once parsed
    format,      \* "unset" | "Gif" | "Png" | "Svg"
    fpc,         \* position of the foreground thread
    wpc,         \* position of the conversion worker thread
    err,         \* error returned by execute_cli, "none" if none
    exitCode,    \* process exit code, meaningful once fpc = "exited"
    log,         \* log / stderr entries in emission order
    raster,      \* raster_progress bar: [pos, len, prefix, status]
    sequence,    \* sequence_progress bar
    snap,        \* last CastRenderProgress handed to update_progress
    prev,        \* the CastRenderProgress handed to the call before that
    emits,       \* number of snapshots emitted so far
    workerResult \* "none" | "ok" | "err" | "panic"

vars == <<args, fs, outFile, interval, format, fpc, wpc, err, exitCode, log,
          raster, sequence, snap, prev, emits, workerResult>>

-----------------------------------------------------------------------------
(* Bounds *)

\* largest frame count (CastRenderProgress.count) a recording has
MaxTotal == 2
\* largest number of snapshots the worker emits in one run
MaxEmits == 4

-----------------------------------------------------------------------------
(* Strings *)

Digits == {"0", "1", "2", "3", "4", "5", "6", "7", "8", "9"}

DigitVal(c) ==
    CASE c = "0" -> 0 [] c = "1" -> 1 [] c = "2" -> 2 [] c = "3" -> 3
      [] c = "4" -> 4 [] c = "5" -> 5 [] c = "6" -> 6 [] c = "7" -> 7
      [] c = "8" -> 8 [] c = "9" -> 9

RECURSIVE DigitsValue(_)
DigitsValue(s) ==
    IF s = <<>> THEN 0
    ELSE DigitsValue(SubSeq(s, 1, Len(s) - 1)) * 10 + DigitVal(s[Len(s)])

\* str::parse::<f32>() on a decimal literal without exponent:
\* [+|-] digits [. digits], at least one digit.  The value is
\* (neg ? -1 : 1) * mant / 10^scale.
ParseF32(s) ==
    LET signed == s # <<>> /\ s[1] \in {"+", "-"}
        neg    == s # <<>> /\ s[1] = "-"
        body   == IF signed THEN SubSeq(s, 2, Len(s)) ELSE s
        dots   == {i \in 1..Len(body) : body[i] = "."}
        dot    == IF dots = {} THEN Len(body) + 1 ELSE CHOOSE i \in dots : TRUE
        ipart  == SubSeq(body, 1, dot - 1)
        fpart  == SubSeq(body, dot + 1, Len(body))
        wellformed ==
            /\ Cardinality(dots) <= 1
            /\ \A i \in 1..Len(body) : body[i] \in Digits \cup {"."}
            /\ Len(ipart) + Len(fpart) > 0
    IN  IF wellformed
        THEN [ok |-> TRUE, neg |-> neg,
              mant |-> DigitsValue(ipart \o fpart), scale |-> Len(fpart)]
        ELSE [ok |-> FALSE, neg |-> FALSE, mant |-> 0, scale |-> 0]

NoInterval == [ok |-> FALSE, neg |-> FALSE, mant |-> 0, scale |-> 0]

\* str::to_lowercase() on the alphabet of the modelled paths
LowerChar(c) ==
    CASE c = "G" -> "g" [] c = "I" -> "i" [] c = "F" -> "f"
      [] c = "P" -> "p" [] c = "N" -> "n" [] c = "S" -> "s"
      [] c = "V" -> "v" [] OTHER -> c

to_lowercase(s) == [i \in 1..Len(s) |-> LowerChar(s[i])]

\* Path::extension() of a one-component path: the part after the last
\* '.'; it is None (HasExtension is FALSE) when there is no '.', or when
\* the only '.' is the first character.
HasExtension(p) == \E i \in 2..Len(p) : p[i] = "."

extension(p) ==
    LET last == CHOOSE i \in 2..Len(p) :
                    p[i] = "." /\ \A j \in (i+1)..Len(p) : p[j] # "."
    IN  SubSeq(p, last + 1, Len(p))

-----------------------------------------------------------------------------
(* Inputs of a run *)

FrameIntervals ==
    { <<"0", ".", "1">>,      \* the default value
      <<"2">>,
      <<"0">>,
      <<"-", "1">>,
      <<"a", "b", "c">> }

\* --format is restricted by clap's possible_values; "none" is an absent flag
FormatArgs == {"none", "gif", "svg", "png"}

OutPaths ==
    { <<"o", ".", "g", "i", "f">>,
      <<"o", ".", "P", "n", "g">>,
      <<"o", ".", "S", "V", "G">>,
      <<"o", ".", "x">>,
      <<"o">>,
      <<".", "g", "i", "f">> }

-----------------------------------------------------------------------------
(* Progress bars (indicatif::ProgressBar as used by cli.rs) *)

\* ProgressBar::new(0): position 0, length 0, empty prefix, in progress
ProgressBarNew == [pos |-> 0, len |-> 0, prefix |-> "", status |-> "InProgress"]

\* ProgressBar::is_finished(): the bar's status is no longer InProgress.
\* The status changes only through finish() or when the bar is dropped;
\* set_position() does not change it.
is_finished(bar) == bar.status # "InProgress"

\* ProgressBar::finish(): position jumps to the length, status DoneVisible
finish(bar) == [bar EXCEPT !.pos = bar.len, !.status = "DoneVisible"]

\* a drop that leaves the bar in progress
drop_bar_StaysInProgress(bar) == bar

\* Dropping the last handle of a bar that is still in progress marks it
\* DoneHidden, which is what lets MultiProgress::join return.
drop_bar(bar) ==
    IF is_finished(bar) THEN bar ELSE [bar EXCEPT !.status = "DoneHidden"]

-----------------------------------------------------------------------------
(* Initial state: the arguments clap accepted and the file system *)

Init ==
    /\ args \in [frame_interval : FrameIntervals, format : FormatArgs,
                 force : BOOLEAN, out_file : OutPaths]
    /\ fs \in [cast_openable : BOOLEAN, out_openable : BOOLEAN,
                out_exists : BOOLEAN]
    /\ outFile = IF fs.out_exists THEN "original" ELSE "absent"
    /\ interval = NoInterval
    /\ format = "unset"
    /\ fpc = "parse_interval"
    /\ wpc = "none"
    /\ err = "none"
    /\ exitCode = 0
    /\ log = <<>>
    /\ raster = ProgressBarNew
    /\ sequence = ProgressBarNew
    /\ snap = [raster_progress |-> 0, sequence_progress |-> 0, count |-> 0]
    /\ prev = [raster_progress |-> 0, sequence_progress |-> 0, count |-> 0]
    /\ emits = 0
    /\ workerResult = "none"

Entry(chan, msg) == [chan |-> chan, msg |-> msg]

\* number of log entries on a channel
RECURSIVE CountChan(_, _)
CountChan(l, chan) ==
    IF l = <<>> THEN 0
    ELSE CountChan(Tail(l), chan) + (IF Head(l).chan = chan THEN 1 ELSE 0)

-----------------------------------------------------------------------------
(* execute_cli: the resolver steps, in source order *)

\* return Err(e) from execute_cli
ReturnErr(e) ==
    /\ err' = e
    /\ fpc' = "returned_err"

\* let interval: f32 = args.value_of("frame_interval")...parse().context(..)?
ParseInterval ==
    /\ fpc = "parse_interval"
    /\ LET r == ParseF32(args.frame_interval)
       IN  IF r.ok
           THEN /\ interval' = r
                /\ fpc' = "open_cast"
                /\ err' = err
           ELSE /\ ReturnErr("Could not parse frame interval")
                /\ interval' = interval
    /\ UNCHANGED <<args, fs, outFile, format, wpc, exitCode, log,
                   raster, sequence, snap, prev, emits, workerResult>>

\* the output file opened (created, truncated) ahead of the cast file
OpenCastFile_OpensOutputFirst ==
    /\ fpc = "open_cast"
    /\ outFile' = IF fs.out_openable THEN "empty" ELSE outFile
    /\ IF fs.cast_openable
       THEN /\ fpc' = "check_out"
            /\ err' = err
       ELSE ReturnErr("Could not open cast file")
    /\ UNCHANGED <<args, fs, interval, format, wpc, exitCode, log,
                   raster, sequence, snap, prev, emits, workerResult>>

\* OpenOptions::new().read(true).open(cast_file_path).context(..)?
OpenCastFile ==
    /\ fpc = "open_cast"
    /\ IF fs.cast_openable
       THEN /\ fpc' = "check_out"
            /\ err' = err
       ELSE ReturnErr("Could not open cast file")
    /\ UNCHANGED <<args, fs, outFile, interval, format, wpc, exitCode, log,
                   raster, sequence, snap, prev, emits, workerResult>>

\* Path::exists() of the output path
exists == outFile # "absent"

\* the overwrite check with the force flag read the wrong way round
CheckOutExists_ForceInverted ==
    /\ fpc = "check_out"
    /\ IF exists /\ args.force
       THEN ReturnErr("Output file already exists")
       ELSE /\ fpc' = "open_out"
            /\ err' = err
    /\ UNCHANGED <<args, fs, outFile, interval, format, wpc, exitCode, log,
                   raster, sequence, snap, prev, emits, workerResult>>

\* the overwrite check building the error without returning it
CheckOutExists_NoReturn ==
    /\ fpc = "check_out"
    /\ err' = IF exists /\ ~args.force THEN "Output file already exists" ELSE err
    /\ fpc' = "open_out"
    /\ UNCHANGED <<args, fs, outFile, interval, format, wpc, exitCode, log,
                   raster, sequence, snap, prev, emits, workerResult>>

\* if out_file_path.exists() && !args.is_present("force") { return Err(..) }
CheckOutExists ==
    /\ fpc = "check_out"
    /\ IF exists /\ ~args.force
       THEN ReturnErr("Output file already exists")
       ELSE /\ fpc' = "open_out"
            /\ err' = err
    /\ UNCHANGED <<args, fs, outFile, interval, format, wpc, exitCode, log,
                   raster, sequence, snap, prev, emits, workerResult>>

\* the output file opened without truncate(true): existing content is kept
OpenOutFile_NoTruncate ==
    /\ fpc = "open_out"
    /\ IF fs.out_openable
       THEN /\ outFile' = IF outFile = "absent" THEN "empty" ELSE outFile
            /\ fpc' = "resolve_format"
            /\ err' = err
       ELSE /\ ReturnErr("Could not open output file")
            /\ outFile' = outFile
    /\ UNCHANGED <<args, fs, interval, format, wpc, exitCode, log,
                   raster, sequence, snap, prev, emits, workerResult>>

\* OpenOptions::new().write(true).create(true).truncate(true).open(..).context(..)?
OpenOutFile ==
    /\ fpc = "open_out"
    /\ IF fs.out_openable
       THEN /\ outFile' = "empty"
            /\ fpc' = "resolve_format"
            /\ err' = err
       ELSE /\ ReturnErr("Could not open output file")
            /\ outFile' = outFile
    /\ UNCHANGED <<args, fs, interval, format, wpc, exitCode, log,
                   raster, sequence, snap, prev, emits, workerResult>>

\* the match with the extension compared as written, not lower-cased
OutputFormatOf_CaseSensitive(fmt, path) ==
    IF fmt = "none"
    THEN IF HasExtension(path)
         THEN LET ext == extension(path)
              IN  CASE ext = <<"g", "i", "f">> -> [format |-> "Gif", warn |-> FALSE]
                    [] ext = <<"s", "v", "g">> -> [format |-> "Svg", warn |-> FALSE]
                    [] ext = <<"p", "n", "g">> -> [format |-> "Png", warn |-> FALSE]
                    [] OTHER -> [format |-> "Gif", warn |-> TRUE]
         ELSE [format |-> "Gif", warn |-> TRUE]
    ELSE CASE fmt = "gif" -> [format |-> "Gif", warn |-> FALSE]
           [] fmt = "svg" -> [format |-> "Svg", warn |-> FALSE]
           [] fmt = "png" -> [format |-> "Png", warn |-> FALSE]

\* the match on args.value_of("format"): [format, warn] for a --format
\* value and an output path
OutputFormatOf(fmt, path) ==
    IF fmt = "none"
    THEN IF HasExtension(path)
         THEN LET ext == to_lowercase(extension(path))
              IN  CASE ext = <<"g", "i", "f">> -> [format |-> "Gif", warn |-> FALSE]
                    [] ext = <<"s", "v", "g">> -> [format |-> "Svg", warn |-> FALSE]
                    [] ext = <<"p", "n", "g">> -> [format |-> "Png", warn |-> FALSE]
                    [] OTHER -> [format |-> "Gif", warn |-> TRUE]
         ELSE [format |-> "Gif", warn |-> TRUE]
    ELSE CASE fmt = "gif" -> [format |-> "Gif", warn |-> FALSE]
           [] fmt = "svg" -> [format |-> "Svg", warn |-> FALSE]
           [] fmt = "png" -> [format |-> "Png", warn |-> FALSE]

ResolveFormat ==
    /\ fpc = "resolve_format"
    /\ LET r == OutputFormatOf(args.format, args.out_file)
       IN  /\ format' = r.format
           /\ log' = IF r.warn
                     THEN Append(log, Entry("warn", "Could not detect output format"))
                     ELSE log
    /\ fpc' = "dispatch"
    /\ UNCHANGED <<args, fs, outFile, interval, wpc, err, exitCode,
                   raster, sequence, snap, prev, emits, workerResult>>

\* create the bars, then match format: Gif spawns the worker and joins,
\* anything else logs "not implemented" and falls through to Ok(())
Dispatch ==
    /\ fpc = "dispatch"
    /\ raster' = ProgressBarNew
    /\ sequence' = ProgressBarNew
    /\ IF format = "Gif"
       THEN /\ wpc' = "converting"
            /\ fpc' = "joining"
            /\ log' = log
       ELSE /\ log' = Append(log, Entry("error", "File format not implemented yet"))
            /\ fpc' = "returned_ok"
            /\ wpc' = wpc
    /\ UNCHANGED <<args, fs, outFile, interval, format, err, exitCode,
                   snap, prev, emits, workerResult>>

\* multi.join_and_clear() returns Ok once every bar added to it is finished
JoinReturns ==
    /\ fpc = "joining"
    /\ is_finished(raster) /\ is_finished(sequence)
    /\ fpc' = "returned_ok"
    /\ UNCHANGED <<args, fs, outFile, interval, format, wpc, err, exitCode, log,
                   raster, sequence, snap, prev, emits, workerResult>>

\* multi.join_and_clear() returns an io::Error (drawing to the terminal
\* failed): .expect("TODO") panics on the foreground thread
JoinFails ==
    /\ fpc = "joining"
    /\ fpc' = "panicked"
    /\ log' = Append(log, Entry("panic_hook", "main: TODO"))
    /\ UNCHANGED <<args, fs, outFile, interval, format, wpc, err, exitCode,
                   raster, sequence, snap, prev, emits, workerResult>>

-----------------------------------------------------------------------------
(* run: the catch_unwind boundary *)

\* if let Err(e) = execute_cli() { log::error!("{:?}", e); exit(1) }
ReportError ==
    /\ fpc = "returned_err"
    /\ log' = Append(log, Entry("typed", err))
    /\ exitCode' = 1
    /\ fpc' = "exited"
    /\ UNCHANGED <<args, fs, outFile, interval, format, wpc, err,
                   raster, sequence, snap, prev, emits, workerResult>>

\* .or_else(|_| { log::error!("...critical internal error..."); exit(1) })
ReportDefect ==
    /\ fpc = "panicked"
    /\ log' = Append(log, Entry("defect", "critical internal error"))
    /\ exitCode' = 1
    /\ fpc' = "exited"
    /\ UNCHANGED <<args, fs, outFile, interval, format, wpc, err,
                   raster, sequence, snap, prev, emits, workerResult>>

\* a fault inside the defect handler that is caught and handled by the same
\* handler again
ReportDefectFaults_Reenter ==
    /\ fpc = "panicked"
    /\ Len(log) < 4
    /\ log' = Append(log, Entry("panic_hook", "main: defect handler"))
    /\ fpc' = "panicked"
    /\ UNCHANGED <<args, fs, outFile, interval, format, wpc, err, exitCode,
                   raster, sequence, snap, prev, emits, workerResult>>

\* The or_else closure itself panics (log::error! faults).  Nothing catches
\* a panic raised there: it unwinds out of run() and the main thread, and
\* the process ends with the runtime's panic exit code.  Not part of Next;
\* see SpecHandlerFault.
ReportDefectFaults ==
    /\ fpc = "panicked"
    /\ log' = Append(log, Entry("panic_hook", "main: defect handler"))
    /\ exitCode' = 101
    /\ fpc' = "exited"
    /\ UNCHANGED <<args, fs, outFile, interval, format, wpc, err,
                   raster, sequence, snap, prev, emits, workerResult>>

\* execute_cli returned Ok(()): run returns and the process ends with 0
RunReturns ==
    /\ fpc = "returned_ok"
    /\ exitCode' = 0
    /\ fpc' = "exited"
    /\ UNCHANGED <<args, fs, outFile, interval, format, wpc, err, log,
                   raster, sequence, snap, prev, emits, workerResult>>

-----------------------------------------------------------------------------
(* The conversion worker: the closure given to std::thread::spawn *)

\* the process is still running, so its threads still take steps
Alive == fpc # "exited"

\* The snapshots convert_to_gif_with_progress may hand to update_progress
\* after `last`: positions never exceed the count, never decrease, and the
\* count, once positive, stays.
NextSnapshots(last) ==
    { s \in [raster_progress : 0..MaxTotal, sequence_progress : 0..MaxTotal,
             count : 0..MaxTotal] :
        /\ s.raster_progress <= s.count
        /\ s.sequence_progress <= s.count
        /\ s.raster_progress >= last.raster_progress
        /\ s.sequence_progress >= last.sequence_progress
        /\ (last.count > 0 => s.count = last.count) }

\* convert_to_gif_with_progress calls progress_handler.update_progress(&s)
Emit ==
    /\ Alive
    /\ wpc = "converting"
    /\ emits < MaxEmits
    /\ \E s \in NextSnapshots(snap) : snap' = s
    /\ prev' = snap
    /\ emits' = emits + 1
    /\ wpc' = "update_raster"
    /\ UNCHANGED <<args, fs, outFile, interval, format, fpc, err, exitCode, log,
                   raster, sequence, workerResult>>

\* A producer that breaks the snapshot invariant: a phase position above
\* the count.  Not part of Next; see SpecMisbehaving.
InvalidSnapshots(last) ==
    { s \in [raster_progress : 0..(MaxTotal + 1),
             sequence_progress : 0..(MaxTotal + 1), count : 0..MaxTotal] :
        /\ s.raster_progress > s.count \/ s.sequence_progress > s.count
        /\ s.raster_progress >= last.raster_progress
        /\ s.sequence_progress >= last.sequence_progress
        /\ (last.count > 0 => s.count = last.count) }

\* update_progress called with an invalid snapshot
EmitInvalid ==
    /\ Alive
    /\ wpc = "converting"
    /\ emits < MaxEmits
    /\ \E s \in InvalidSnapshots(snap) : snap' = s
    /\ prev' = snap
    /\ emits' = emits + 1
    /\ wpc' = "update_raster"
    /\ UNCHANGED <<args, fs, outFile, interval, format, fpc, err, exitCode, log,
                   raster, sequence, workerResult>>

\* the macro advancing the bar by $p (inc) instead of setting its position
handle_progress_Inc(x, p, message, count) ==
    LET b1 == [x EXCEPT !.len = count]
        b2 == [b1 EXCEPT !.prefix =
                  IF b1.pos > 0 THEN message
                  ELSE IF is_finished(b1) THEN "Done"
                  ELSE "Waiting"]
        b3 == [b2 EXCEPT !.pos = b2.pos + p]
    IN  IF is_finished(b3) THEN finish(b3) ELSE b3

\* the handle_progress! macro applied to bar $x with position $p, label
\* $message and progress.count
handle_progress(x, p, message, count) ==
    LET b1 == [x EXCEPT !.len = count]
        b2 == [b1 EXCEPT !.prefix =
                  IF b1.pos > 0 THEN message
                  ELSE IF is_finished(b1) THEN "Done"
                  ELSE "Waiting"]
        b3 == [b2 EXCEPT !.pos = p]
    IN  IF is_finished(b3) THEN finish(b3) ELSE b3

\* update_progress, first expansion: the raster bar
UpdateRaster ==
    /\ Alive
    /\ wpc = "update_raster"
    /\ raster' = handle_progress(raster, snap.raster_progress, "Rasterizing",
                                 snap.count)
    /\ wpc' = "update_sequence"
    /\ UNCHANGED <<args, fs, outFile, interval, format, fpc, err, exitCode, log,
                   sequence, snap, prev, emits, workerResult>>

\* update_progress, second expansion: the sequence bar
UpdateSequence ==
    /\ Alive
    /\ wpc = "update_sequence"
    /\ sequence' = handle_progress(sequence, snap.sequence_progress,
                                   "Sequencing", snap.count)
    /\ wpc' = "converting"
    /\ UNCHANGED <<args, fs, outFile, interval, format, fpc, err, exitCode, log,
                   raster, snap, prev, emits, workerResult>>

\* the worker closure ends (normally or by unwinding): the ProgressHandler,
\* and with it both bars, is dropped
DropHandler ==
    /\ raster' = drop_bar(raster)
    /\ sequence' = drop_bar(sequence)

\* convert_to_gif_with_progress returns Ok(()) after its final snapshot
ConvertOk ==
    /\ Alive
    /\ wpc = "converting"
    /\ emits > 0
    /\ snap.raster_progress = snap.count
    /\ snap.sequence_progress = snap.count
    /\ workerResult' = "ok"
    /\ outFile' = "gif"
    /\ wpc' = "done"
    /\ DropHandler
    /\ UNCHANGED <<args, fs, interval, format, fpc, err, exitCode, log,
                   snap, prev, emits>>

\* convert_to_gif_with_progress returns Err(e): .expect("TODO") panics on
\* the worker thread; the panic hook prints it and the thread unwinds
ConvertErr ==
    /\ Alive
    /\ wpc = "converting"
    /\ workerResult' = "err"
    /\ log' = Append(log, Entry("panic_hook", "worker: TODO: ConversionError"))
    /\ wpc' = "panicked"
    /\ DropHandler
    /\ UNCHANGED <<args, fs, outFile, interval, format, fpc, err, exitCode,
                   snap, prev, emits>>

\* convert_to_gif_with_progress itself panics on the worker thread
ConvertPanic ==
    /\ Alive
    /\ wpc = "converting"
    /\ workerResult' = "panic"
    /\ log' = Append(log, Entry("panic_hook", "worker: panic"))
    /\ wpc' = "panicked"
    /\ DropHandler
    /\ UNCHANGED <<args, fs, outFile, interval, format, fpc, err, exitCode,
                   snap, prev, emits>>

-----------------------------------------------------------------------------

Next ==
    \/ ParseInterval
    \/ OpenCastFile
    \/ CheckOutExists
    \/ OpenOutFile
    \/ ResolveFormat
    \/ Dispatch
    \/ JoinReturns
    \/ JoinFails
    \/ ReportError
    \/ ReportDefect
    \/ RunReturns
    \/ Emit
    \/ UpdateRaster
    \/ UpdateSequence
    \/ ConvertOk
    \/ ConvertErr
    \/ ConvertPanic

Spec == Init /\ [][Next]_vars

\* the same program driven by a producer that may also emit invalid snapshots
NextMisbehaving == Next \/ EmitInvalid

SpecMisbehaving == Init /\ [][NextMisbehaving]_vars

\* The foreground thread is scheduled: a step of it that stays possible is
\* eventually taken.  (Nothing is assumed about the worker, nor about the
\* terminal failing.)
FairSpec ==
    /\ Spec
    /\ WF_vars(JoinReturns)
    /\ WF_vars(RunReturns)
    /\ WF_vars(ReportError)
    /\ WF_vars(ReportDefect)

\* the same program when reporting a defect may itself fault
NextHandlerFault == Next \/ ReportDefectFaults

SpecHandlerFault == Init /\ [][NextHandlerFault]_vars

-----------------------------------------------------------------------------
(* Vocabulary of the properties *)

Exited == fpc = "exited"

ErrParseInterval == "Could not parse frame interval"
ErrOpenCast      == "Could not open cast file"
ErrOutputExists  == "Output file already exists"
ErrOpenOut       == "Could not open output file"

TypedReports   == CountChan(log, "typed")
DefectReports  == CountChan(log, "defect")
FormatWarnings == CountChan(log, "warn")
Panics         == CountChan(log, "panic_hook")

\* the foreground thread panicked (inside execute_cli)
ForegroundPanicked ==
    \E i \in 1..Len(log) : log[i] = Entry("panic_hook", "main: TODO")

\* the conversion worker thread has been spawned
WorkerSpawned == wpc # "none"

-----------------------------------------------------------------------------
(* C1 - worker-failure propagation *)

\* C1: whenever the worker's call to convert_to_gif_with_progress returned a
\* ConversionError, the process ends with exit code 1, never with 0, and the
\* foreground has reported the error through the typed-error channel (unless
\* the foreground itself panicked, which is the defect channel's case).
C1_WorkerFailurePropagates ==
    (Exited /\ workerResult = "err") =>
        /\ exitCode = 1
        /\ ~ForegroundPanicked => TypedReports = 1

-----------------------------------------------------------------------------
(* C2 - unimplemented format *)

\* C2: a run whose resolved format is Png or Svg fails before a worker is
\* spawned and the process ends with exit code 1, never with 0.
C2_UnimplementedFormatFails ==
    (Exited /\ format \in {"Png", "Svg"}) =>
        /\ ~WorkerSpawned
        /\ exitCode = 1

-----------------------------------------------------------------------------
(* C3 - defect containment *)

\* C3: whenever a panic was raised during the run, on the foreground thread
\* or on the worker thread, the process ends with exit code 1 and exactly
\* one generic bug-report message.
C3_DefectContained ==
    (Exited /\ Panics > 0) =>
        /\ exitCode = 1
        /\ DefectReports = 1

-----------------------------------------------------------------------------
(* C4 - single reporting channel *)

\* a run that failed: execute_cli returned an error, some thread panicked,
\* or the conversion returned a ConversionError
FailingRun == err # "none" \/ Panics > 0 \/ workerResult \in {"err", "panic"}

\* C4: in every failing run exactly one of the typed-error report and the
\* generic defect report fires, exactly once, and the exit code is non-zero.
C4_SingleReportingChannel ==
    (Exited /\ FailingRun) =>
        /\ TypedReports + DefectReports = 1
        /\ exitCode # 0

-----------------------------------------------------------------------------
(* C5 - overwrite guard *)

\* the run got as far as evaluating the overwrite check
GuardEvaluated ==
    /\ fpc \notin {"parse_interval", "open_cast", "check_out"}
    /\ err \notin {ErrParseInterval, ErrOpenCast}

\* C5: with an existing output path and no --force, a run that reaches the
\* overwrite check fails with the "already exists" error, spawns nothing,
\* exits 1, and the file keeps its original content in every state of the
\* run.  With --force the check never fails the run, and once the path has
\* been opened for writing the original content is gone for good.
C5_OverwriteGuard ==
    /\ (fs.out_exists /\ ~args.force) => outFile = "original"
    /\ (fs.out_exists /\ ~args.force /\ GuardEvaluated) =>
           /\ err = ErrOutputExists
           /\ ~WorkerSpawned
           /\ Exited => (exitCode = 1 /\ TypedReports = 1)
    /\ (fs.out_exists /\ args.force) => err # ErrOutputExists
    /\ (fs.out_exists /\ args.force /\ GuardEvaluated /\ fs.out_openable
          /\ fpc # "open_out") => outFile # "original"

\* an existing file was protected: the run ended with the guard's error
C5_Witness ==
    /\ Exited /\ fs.out_exists /\ ~args.force
    /\ err = ErrOutputExists /\ outFile = "original" /\ exitCode = 1

-----------------------------------------------------------------------------
(* C6 - pre-execution short-circuit *)

ResolverErrors == {ErrParseInterval, ErrOpenCast, ErrOutputExists, ErrOpenOut}

\* C6: each of the four resolver failures is returned as an error, and from
\* the moment an error is returned the run is over: no worker is or was
\* spawned and the conversion never ran.
C6_PreExecutionShortCircuit ==
    /\ (fpc # "parse_interval" /\ args.frame_interval = <<"a", "b", "c">>)
           => err = ErrParseInterval
    /\ (fpc \notin {"parse_interval", "open_cast"} /\ err # ErrParseInterval
          /\ ~fs.cast_openable) => err = ErrOpenCast
    /\ (GuardEvaluated /\ fs.out_exists /\ ~args.force) => err = ErrOutputExists
    /\ (GuardEvaluated /\ fpc # "open_out" /\ err # ErrOutputExists
          /\ ~fs.out_openable) => err = ErrOpenOut
    /\ err \in ResolverErrors \cup {"none"}
    /\ err # "none" =>
           /\ fpc \in {"returned_err", "exited"}
           /\ ~WorkerSpawned
           /\ workerResult = "none"
           /\ emits = 0

\* a run that failed at the last resolver step, opening the output file
C6_Witness == Exited /\ err = ErrOpenOut /\ ~WorkerSpawned

-----------------------------------------------------------------------------
(* C7 - format resolution precedence *)

\* the format an explicit --format value names
ExplicitFormat ==
    CASE args.format = "gif" -> "Gif"
      [] args.format = "svg" -> "Svg"
      [] args.format = "png" -> "Png"
      [] OTHER -> "unset"

\* the format each modelled output path names by its extension, written out
\* by hand: "none" for a missing or unknown extension
NamedByExtension ==
    CASE args.out_file = <<"o", ".", "g", "i", "f">> -> "Gif"
      [] args.out_file = <<"o", ".", "P", "n", "g">> -> "Png"
      [] args.out_file = <<"o", ".", "S", "V", "G">> -> "Svg"
      [] OTHER -> "none"

\* C7: once resolved, the format is the explicit --format value if given;
\* otherwise the one the extension names, case-insensitively; otherwise Gif
\* with exactly one warning.  No warning in the first two cases.
C7_FormatPrecedence ==
    format # "unset" =>
        /\ args.format # "none" =>
               (format = ExplicitFormat /\ FormatWarnings = 0)
        /\ (args.format = "none" /\ NamedByExtension # "none") =>
               (format = NamedByExtension /\ FormatWarnings = 0)
        /\ (args.format = "none" /\ NamedByExtension = "none") =>
               (format = "Gif" /\ FormatWarnings = 1)

\* an upper-case extension resolved without --format
C7_Witness ==
    /\ args.format = "none" /\ args.out_file = <<"o", ".", "S", "V", "G">>
    /\ format = "Svg" /\ FormatWarnings = 0 /\ Exited

-----------------------------------------------------------------------------
(* C8 - interval validation *)

\* the parsed interval is a positive number
Positive(f) == f.ok /\ ~f.neg /\ f.mant > 0

\* C8: an interval string is accepted only if it parses as a positive
\* number, so the interval handed to the worker is always > 0; any other
\* string fails the run with the argument error.
C8_IntervalValidation == WorkerSpawned => Positive(interval)

-----------------------------------------------------------------------------
(* C9 - completion latch *)

\* update_progress is not running: every emitted snapshot has been processed
\* by both expansions of the macro
SnapshotProcessed == emits > 0 /\ wpc \notin {"update_raster", "update_sequence"}

\* the phase's display state is Done: the bar carries the label "Done"
\* (the other two labels are "Waiting" and the phase name)
DisplayDone(bar) == bar.prefix = "Done"

\* C9: once update_progress has processed a snapshot whose phase position
\* equals the total and the total is > 0, that phase shows Done after the call
\* (positions never decrease, so the last processed snapshot has the same
\* property in every later state while the worker runs).
C9_CompletionLatch ==
    (SnapshotProcessed /\ wpc = "converting" /\ snap.count > 0) =>
        /\ snap.raster_progress = snap.count => DisplayDone(raster)
        /\ snap.sequence_progress = snap.count => DisplayDone(sequence)

-----------------------------------------------------------------------------
(* C10 - progress monotonicity *)

\* a bar's position is within its length, once the length is known
WithinLength(bar) == bar.len > 0 => bar.pos <= bar.len

\* C10: no step of a run decreases the position either bar shows, and each
\* bar's position is at most its length whenever the length is > 0.
C10_ProgressMonotonic ==
    /\ [](WithinLength(raster) /\ WithinLength(sequence))
    /\ [][raster'.pos >= raster.pos /\ sequence'.pos >= sequence.pos]_vars

\* both bars have advanced over several snapshots, the raster bar to its end
C10_Witness ==
    /\ emits >= 3 /\ wpc = "converting"
    /\ raster.len > 1 /\ raster.pos = raster.len
    /\ sequence.pos > 0 /\ sequence.pos < sequence.len

-----------------------------------------------------------------------------
(* C11 - capacity bound under a misbehaving producer *)

\* C11: after update_progress has processed any snapshot, valid or not, no
\* bar reports a position greater than its length (an invalid snapshot is
\* rejected, not applied).
C11_CapacityBound ==
    SnapshotProcessed =>
        /\ raster.pos <= raster.len
        /\ sequence.pos <= sequence.len

-----------------------------------------------------------------------------
(* C12 - foreground wait condition *)

\* the phase has reached Done in any sense the display offers: the label
\* "Done", a bar finished by finish(), or a position equal to a total > 0
PhaseReachedDone(bar) ==
    \/ DisplayDone(bar)
    \/ bar.status = "DoneVisible"
    \/ (bar.len > 0 /\ bar.pos = bar.len)

\* C12: in a run that spawned the worker, join_and_clear has returned (and
\* execute_cli is about to return Ok, or has) only if both phases have
\* reached Done.
C12_WaitsForBothDone ==
    (WorkerSpawned /\ (fpc = "returned_ok" \/ (Exited /\ exitCode = 0))) =>
        /\ PhaseReachedDone(raster)
        /\ PhaseReachedDone(sequence)

-----------------------------------------------------------------------------
(* C13 - atomic snapshot handoff *)

\* what the two indicators show: positions and lengths
View == <<raster.pos, raster.len, sequence.pos, sequence.len>>

\* what they show when both reflect snapshot s
ViewOf(s) == <<s.raster_progress, s.count, s.sequence_progress, s.count>>

\* C13: whenever the foreground is in its display loop, the positions and
\* lengths of both indicators come from one and the same snapshot: the last
\* one handed to update_progress, or the one before it.
C13_NoTornSnapshot ==
    (fpc = "joining" /\ WorkerSpawned) => View \in {ViewOf(snap), ViewOf(prev)}

-----------------------------------------------------------------------------
(* C14 - label rule *)

\* the label the rule gives a bar for the position it shows
ExpectedLabel(bar, message) ==
    IF bar.pos > 0 THEN message
    ELSE IF is_finished(bar) \/ DisplayDone(bar) THEN "Done"
    ELSE "Waiting"

\* C14: after update_progress has processed a snapshot, each bar's label is
\* the one the rule gives for the position the bar then shows.
C14_LabelMatchesPosition ==
    (SnapshotProcessed /\ wpc = "converting") =>
        /\ raster.prefix = ExpectedLabel(raster, "Rasterizing")
        /\ sequence.prefix = ExpectedLabel(sequence, "Sequencing")

-----------------------------------------------------------------------------
(* C15 - run state machine *)

\* the state of the run, read off the foreground's position
RunStateAt(pc, code) ==
    CASE pc \in {"parse_interval", "open_cast", "check_out", "open_out",
                 "resolve_format"} -> "Init"
      [] pc = "dispatch" -> "PlanResolved"
      [] pc = "joining" -> "Converting"
      [] pc = "returned_ok" \/ (pc = "exited" /\ code = 0) -> "Succeeded"
      [] OTHER -> "Failed"

RunState == RunStateAt(fpc, exitCode)

Rank(st) ==
    CASE st = "Init" -> 0
      [] st = "PlanResolved" -> 1
      [] st = "Converting" -> 2
      [] OTHER -> 3

\* C15: a run visits Init, PlanResolved, Converting and a terminal state in
\* that order (a failure may cut the path short, success comes only out of
\* Converting), the terminal state is never left or exchanged, the worker
\* exists exactly from Converting on, and a worker that has ended is never
\* started again.
C15_RunStateMachine ==
    /\ [](RunState = "Succeeded" => WorkerSpawned)
    /\ [](RunState \in {"Init", "PlanResolved"} => ~WorkerSpawned)
    /\ [](RunState = "Converting" => WorkerSpawned)
    /\ [][/\ Rank(RunStateAt(fpc', exitCode')) >= Rank(RunState)
          /\ Rank(RunState) = 3 => RunStateAt(fpc', exitCode') = RunState
          /\ wpc \in {"done", "panicked"} => wpc' = wpc]_vars

-----------------------------------------------------------------------------
(* C16 - fault inside the defect handler *)

\* number of faults raised inside the defect handler
HandlerFaults ==
    Cardinality({i \in 1..Len(log) :
                    log[i] = Entry("panic_hook", "main: defect handler")})

\* C16: the defect handler is entered at most once per run (it either
\* reports or faults), and if it faults the process has terminated, with a
\* non-zero exit code, in the same step.
C16_HandlerFaultTerminates ==
    /\ HandlerFaults + DefectReports <= 1
    /\ HandlerFaults > 0 => (Exited /\ exitCode # 0)

\* the defect handler faulted and the process is gone
C16_Witness == HandlerFaults = 1 /\ DefectReports = 0 /\ Exited /\ exitCode = 101

-----------------------------------------------------------------------------
(* C17 - foreground termination *)

\* the worker thread has terminated, by returning or by unwinding
WorkerTerminated == wpc \in {"done", "panicked"}

\* C17: whenever the worker thread has terminated (success, conversion
\* error, panic, a recording whose count stays 0), the foreground's wait
\* eventually returns and the process eventually exits.
C17_ForegroundTerminates == WorkerTerminated ~> Exited

\* a conversion whose count stayed 0 succeeded and the process has exited
C17_Witness ==
    /\ Exited /\ wpc = "done" /\ workerResult = "ok"
    /\ snap.count = 0 /\ raster.pos = 0 /\ raster.len = 0

-----------------------------------------------------------------------------
(* C18 - truncation and conversion *)

\* C18 as stated: at the end of a run, an existing output file has lost its
\* original content only if the run spawned the conversion worker.
C18_NoTruncationWithoutConversion ==
    (Exited /\ fs.out_exists /\ outFile # "original") => WorkerSpawned

\* the run has executed the truncating open of the output path successfully
OutputOpened ==
    /\ GuardEvaluated
    /\ fpc # "open_out"
    /\ err \notin {ErrOutputExists, ErrOpenOut}

\* C18 as amended: an existing output file has lost its original content
\* exactly when the run passed the overwrite check with --force and opened
\* the path; that is before the format is resolved, so a --force run whose
\* format is Png or Svg has truncated the file although no worker is spawned.
C18_TruncatedWhenOpened ==
    fs.out_exists =>
        /\ outFile # "original" <=> (args.force /\ OutputOpened)
        /\ (args.force /\ format \in {"Png", "Svg"}) =>
               (outFile = "empty" /\ ~WorkerSpawned)

\* a --force run on an existing file with an unimplemented format has ended
C18_Witness ==
    /\ Exited /\ fs.out_exists /\ args.force /\ format = "Png"
    /\ outFile = "empty" /\ ~WorkerSpawned

-----------------------------------------------------------------------------
(* C19 - validation order *)

\* the output path as the run found it
InitialOutFile == IF fs.out_exists THEN "original" ELSE "absent"

\* C19: a run that fails on the frame interval or on the cast file leaves the
\* output path as it found it, with or without --force; the output path is
\* touched only after the interval parsed, the cast file opened and the
\* overwrite check passed.
C19_ValidationOrder ==
    /\ err \in {ErrParseInterval, ErrOpenCast} => outFile = InitialOutFile
    /\ fpc \in {"parse_interval", "open_cast", "check_out", "open_out"}
           => outFile = InitialOutFile
    /\ outFile # InitialOutFile =>
           /\ interval.ok
           /\ fs.cast_openable
           /\ ~fs.out_exists \/ args.force

\* a --force run on an existing file failed on the cast file
C19_Witness ==
    /\ Exited /\ err = ErrOpenCast /\ args.force /\ fs.out_exists
    /\ outFile = "original" /\ exitCode = 1

====
